---- MODULE Spec2Model ----
(***************************************************************************)
(* A model of the two notebooks of geo-notebooks:                          *)
(*   notebooks/odc-planetary-computer.ipynb  (Sentinel-2, "pc")            *)
(*   notebooks/odc-landsat.ipynb             (Landsat C2, "landsat")       *)
(* Three state machines share the variables below:                         *)
(*   SpecNorm   items_to_geodataframe, one action per statement            *)
(*   SpecPixel  the NDVI expression on one pixel of the cube               *)
(*   Spec       a notebook run cell by cell, with the dask worker pool     *)
(***************************************************************************)
EXTENDS Integers, Sequences, FiniteSets, TLC

VARIABLES
    nb,         \* the notebook being run: "pc" or "landsat"
    cell,       \* the notebook's position: the cell (or statement) to run next
    returned,   \* the item records as the catalog search returned them
    items_dict, \* the notebook's list of item objects: Seq of references
    heap,       \* the item objects (python dicts), by reference: Seq of items
    items,      \* items_to_geodataframe's argument: Seq of references
    _items,     \* its local list of copies: Seq of references
    gdf,        \* its table
    fpc,        \* its position: "idle","loop","fields","done","raised"
    field_i,    \* index of the timestamp field its second loop is at
    err,        \* the exception a statement raised, "none" if none
    item_collection, \* what stac_load was handed: Seq of item records
    dc,         \* the cube handle stac_load returned
    vis, ndvi,  \* the two derived products: "undefined","lazy","persisted","numpy"
    client,     \* the worker pool's client: "none","connected","closed"
    task,       \* the scheduler's state of each task of the graphs
    held,       \* the tasks whose futures the client holds
    batch,      \* for each task, the submission call that asked for it (0: none)
    calls,      \* number of submission calls (persist, compute) made so far
    nrun,       \* how many times each task was executed on a worker
    accesses,   \* number of asset-URL accesses made so far
    tokens,     \* number of requests the URL-signing hook made so far
    read,       \* the results the notebook has read so far, each with what
                \* the scheduler held when it was read
    blame,      \* for each erred task, the task whose exception it carries
    err_task,   \* the task named by the exception the notebook was raised
    dtype,      \* the data type the loader gave the cube's bands
    nodata,     \* the no-data value the loader attached to the cube's bands
    nir, red,   \* one pixel of the two source bands of the NDVI expression
    green, blue, \* the same pixel of the two other bands of the composite
    ndvi_value, \* the NDVI expression's value at that pixel
    alpha,      \* the composite's alpha channel at that pixel
    environ,    \* os.environ of the notebook's process
    environment_vars \* the environment handed to the cluster's workers

fvars == <<heap, items, _items, gdf, fpc, field_i, err>>
dvars == <<dc, vis, ndvi, client, task, held, batch, calls, nrun, accesses, tokens, read,
           blame, err_task>>
pvars == <<dtype, nodata, nir, red, green, blue, ndvi_value, alpha>>
evars == <<environ, environment_vars>>
vars == <<nb, cell, returned, items_dict, item_collection, fvars, dvars, pvars, evars>>

(***************************************************************************)
(* Bounds                                                                  *)
(***************************************************************************)
MaxItems == 2
MaxStamp == 2
\* pixel values are drawn from the MaxLow + 1 lowest and highest values of
\* the data type and the 2 * MaxLow + 1 values around its middle
MaxLow == 2

(***************************************************************************)
(* Values                                                                  *)
(***************************************************************************)
\* A cell of a table, or a leaf of an item record: a tagged code.
Cell(t, v) == [t |-> t, v |-> v]
None == Cell("None", 0)
NaN == Cell("NaN", 0)
NaT == Cell("NaT", 0)

\* A GeoJSON geometry mapping, and the shapely object shape() makes of it.
GeoMapping(g) == [kind |-> "mapping", type |-> "Polygon", coordinates |-> g]

shape(geometry) ==
    IF geometry.kind = "mapping"
    THEN [kind |-> "shape", type |-> geometry.type, coordinates |-> geometry.coordinates]
    ELSE geometry

\* The three designated timestamp columns, in the order the loop visits them.
TimestampFields ==
    << <<"properties", "datetime">>, <<"properties", "created">>, <<"properties", "updated">> >>

\* pd.to_datetime on one cell: a string parses to a timestamp, a missing
\* value (None, NaN) becomes NaT.
to_datetime(c) ==
    IF c.t = "str" THEN Cell("Timestamp", c.v)
    ELSE IF c.t \in {"None", "NaN", "NaT"} THEN NaT
    ELSE c

(***************************************************************************)
(* Item records                                                            *)
(***************************************************************************)
\* An href is a sequence of fragments; "usgs-landsat" followed by "-ard"
\* spells the bucket name 'usgs-landsat-ard'.
HttpsHref == <<"https://landsatlook/", "usgs-landsat", "-ard", "/B4.TIF">>
S3Href == <<"s3://", "usgs-landsat", "-ard", "/B4.TIF">>
PlainHref == <<"https://blob/", "B04.tif">>
\* an href that spells the bucket name twice, the second time followed by
\* one more '-ard'
TwiceHref ==
    <<"https://landsatlook/", "usgs-landsat", "-ard", "/", "usgs-landsat", "-ard", "-ard", "/B4.TIF">>

\* Asset descriptors as the catalogs return them: with an alternate s3
\* href, with an alternate that has no s3 entry, and without alternate.
AssetS3 == [href |-> HttpsHref, alternate |-> [s3 |-> [href |-> S3Href]]]
AssetGs == [href |-> TwiceHref, alternate |-> [gs |-> [href |-> PlainHref]]]
AssetPlain == [href |-> PlainHref]
AssetKinds == {AssetS3, AssetGs, AssetPlain}

PropertyKeys == {"datetime", "created", "updated"}

\* The values a timestamp property holds in a record: a string, or null.
StampValues == {Cell("str", v) : v \in 1..MaxStamp}

\* Every properties mapping: any subset of the three keys present;
\* 'datetime' may be null (STAC allows it), the others are strings.
PropertiesOver(S) ==
    { p \in [S -> StampValues \cup {None}] :
        \A k \in S \ {"datetime"} : p[k] = Cell("str", 1) }
AllProperties == UNION { PropertiesOver(S) : S \in SUBSET PropertyKeys }

Item(id, props, assets) ==
    [id |-> id, geometry |-> GeoMapping(id), properties |-> props, assets |-> assets]

(***************************************************************************)
(* pandas.json_normalize: nested mappings flattened to dotted paths.       *)
(* A path <<"properties","datetime">> is the column 'properties.datetime'. *)
(***************************************************************************)
GeometryPaths(g) ==
    IF g.kind = "shape" THEN {<<"geometry">>}
    ELSE {<<"geometry", "type">>, <<"geometry", "coordinates">>}

AssetPaths(n, a) ==
    {<<"assets", n, "href">>}
    \cup (IF "alternate" \in DOMAIN a
          THEN {<<"assets", n, "alternate", s, "href">> : s \in DOMAIN a.alternate}
          ELSE {})

FlatPaths(it) ==
    {<<"id">>}
    \cup GeometryPaths(it.geometry)
    \cup {<<"properties", k>> : k \in DOMAIN it.properties}
    \cup UNION {AssetPaths(n, it.assets[n]) : n \in DOMAIN it.assets}

FlatValue(it, p) ==
    CASE p[1] = "id" -> Cell("id", it.id)
      [] p[1] = "geometry" ->
            IF Len(p) = 1 THEN Cell("shape", it.geometry.coordinates)
            ELSE IF p[2] = "type" THEN Cell("name", it.geometry.type)
            ELSE Cell("coords", it.geometry.coordinates)
      [] p[1] = "properties" -> it.properties[p[2]]
      [] p[1] = "assets" ->
            IF Len(p) = 3 THEN Cell("href", it.assets[p[2]].href)
            ELSE Cell("href", it.assets[p[2]].alternate[p[4]].href)

nested_to_record(it) == [p \in FlatPaths(it) |-> FlatValue(it, p)]

RangeIndex(n) == [k \in 1..n |-> Cell("int", k - 1)]

\* One row per record; a column for every path of any record; NaN where a
\* record lacks the path. An empty list gives no rows and no columns.
json_normalize(recs) ==
    LET flat == [k \in 1..Len(recs) |-> nested_to_record(recs[k])]
        cols == UNION {DOMAIN flat[k] : k \in 1..Len(recs)}
    IN  [columns |-> cols,
         rows |-> [k \in 1..Len(recs) |->
                     [p \in cols |-> IF p \in DOMAIN flat[k] THEN flat[k][p] ELSE NaN]],
         index_name |-> <<>>,
         index |-> RangeIndex(Len(recs))]

EmptyFrame == json_normalize(<<>>)

\* `field in gdf`: column membership.
HasColumn(df, field) == field \in df.columns

\* gdf[field] = pd.to_datetime(gdf[field])
ParseColumn(df, field) ==
    [df EXCEPT !.rows = [k \in 1..Len(df.rows) |->
                            [df.rows[k] EXCEPT ![field] = to_datetime(@)]]]

\* The rows a frame keeps when `field` becomes its index: all of them, the
\* column itself dropped (drop=True is the default).
SetIndexRows_Unique(df, field) ==
    LET keep == {k \in 1..Len(df.rows) :
                    \A j \in 1..(k - 1) : df.rows[j][field] # df.rows[k][field]}
        F[k \in 0..Len(df.rows)] ==
            IF k = 0 THEN <<>>
            ELSE IF k \in keep THEN Append(F[k - 1], k) ELSE F[k - 1]
    IN  F[Len(df.rows)]
SetIndexRows(df, field) == [k \in 1..Len(df.rows) |-> k]

\* gdf.set_index(field, inplace=True): KeyError when the column is missing.
set_index(df, field) ==
    IF field \notin df.columns
    THEN [raised |-> "KeyError", df |-> df]
    ELSE LET keep == SetIndexRows(df, field)
             cols == df.columns \ {field}
         IN  [raised |-> "none",
              df |-> [columns |-> cols,
                      rows |-> [k \in 1..Len(keep) |->
                                  [p \in cols |-> df.rows[keep[k]][p]]],
                      index_name |-> field,
                      index |-> [k \in 1..Len(keep) |-> df.rows[keep[k]][field]]]]

(***************************************************************************)
(* copy.deepcopy of an item: a new object, equal to the old one.           *)
(***************************************************************************)
deepcopy_Alias(h, ref) == [heap |-> h, ref |-> ref]
deepcopy(h, ref) == [heap |-> Append(h, h[ref]), ref |-> Len(h) + 1]

(***************************************************************************)
(* items_to_geodataframe(items), statement by statement                    *)
(***************************************************************************)
\* for i in items: _i = deepcopy(i); _i['geometry'] = shape(...); append
FootprintLoop ==
    /\ fpc = "loop"
    /\ Len(_items) < Len(items)
    /\ LET c == deepcopy(heap, items[Len(_items) + 1])
       IN  /\ heap' = [c.heap EXCEPT ![c.ref].geometry = shape(@)]
           /\ _items' = Append(_items, c.ref)
    /\ UNCHANGED <<items, gdf, fpc, field_i, err>>
    /\ UNCHANGED <<nb, evars, cell, returned, items_dict, item_collection, dvars, pvars>>

\* gdf = gpd.GeoDataFrame(pd.json_normalize(_items))
FootprintNormalize ==
    /\ fpc = "loop"
    /\ Len(_items) = Len(items)
    /\ gdf' = json_normalize([k \in 1..Len(_items) |-> heap[_items[k]]])
    /\ fpc' = "fields"
    /\ field_i' = 1
    /\ UNCHANGED <<heap, items, _items, err>>
    /\ UNCHANGED <<nb, evars, cell, returned, items_dict, item_collection, dvars, pvars>>

\* for field in [...]: if field in gdf: gdf[field] = pd.to_datetime(gdf[field])
FootprintField ==
    /\ fpc = "fields"
    /\ field_i <= Len(TimestampFields)
    /\ gdf' = IF HasColumn(gdf, TimestampFields[field_i])
              THEN ParseColumn(gdf, TimestampFields[field_i])
              ELSE gdf
    /\ field_i' = field_i + 1
    /\ UNCHANGED <<heap, items, _items, fpc, err>>
    /\ UNCHANGED <<nb, evars, cell, returned, items_dict, item_collection, dvars, pvars>>

\* gdf.set_index('properties.datetime', inplace=True); return gdf
FootprintSetIndex ==
    /\ fpc = "fields"
    /\ field_i > Len(TimestampFields)
    /\ LET r == set_index(gdf, TimestampFields[1])
       IN  /\ gdf' = r.df
           /\ err' = r.raised
           /\ fpc' = IF r.raised = "none" THEN "done" ELSE "raised"
    /\ UNCHANGED <<heap, items, _items, field_i>>
    /\ UNCHANGED <<nb, evars, cell, returned, items_dict, item_collection, dvars, pvars>>

FootprintStep ==
    FootprintLoop \/ FootprintNormalize \/ FootprintField \/ FootprintSetIndex

(***************************************************************************)
(* The process environment and the environment of the cluster's workers    *)
(***************************************************************************)
GdalVars ==
    {"GDAL_DISABLE_READDIR_ON_OPEN", "GDAL_MAX_RAW_BLOCK_CACHE_SIZE",
     "GDAL_SWATH_SIZE", "VSI_CURL_CACHE_SIZE"}
CredentialVars == {"AWS_ACCESS_KEY_ID", "AWS_SECRET_ACCESS_KEY", "AWS_S3_ENDPOINT"}
EnvVars == GdalVars \cup {"AWS_REQUEST_PAYER"} \cup CredentialVars \cup {"PATH"}

\* The environment the notebook's process starts with: the variables the
\* notebook writes are unset, or hold values inherited from the shell.
StartEnviron(v) == [k \in EnvVars |-> IF k = "PATH" THEN "inherited" ELSE v]

\* os.environ.update(d)
EnvUpdate(e, d) == [k \in EnvVars |-> IF k \in DOMAIN d THEN d[k] ELSE e[k]]

\* env = dict(GDAL_DISABLE_READDIR_ON_OPEN='EMPTY_DIR', ...)
GdalEnv ==
    [GDAL_DISABLE_READDIR_ON_OPEN |-> "EMPTY_DIR",
     GDAL_MAX_RAW_BLOCK_CACHE_SIZE |-> "200000000",
     GDAL_SWATH_SIZE |-> "200000000",
     VSI_CURL_CACHE_SIZE |-> "200000000"]
\* env = dict(AWS_REQUEST_PAYER='requester')
PayerEnv == [AWS_REQUEST_PAYER |-> "requester"]

\* The user's credentials file, as far as set_credentials reads it: the
\* keys the profile 'default' has in it (none if there is no such profile).
CredentialFiles ==
    {{}, {"aws_access_key_id"}, {"aws_access_key_id", "aws_secret_access_key"}}
\* endpoint = f's3.{region}.amazonaws.com' with region='us-west-2'
Endpoint == "s3.us-west-2.amazonaws.com"

\* options.environment_vars = dict(os.environ): a copy of all of it.
EnvironmentVars_EnvDict(e) == [k \in EnvVars |-> IF k \in DOMAIN PayerEnv THEN e[k] ELSE "unset"]
EnvironmentVars(e) == [k \in EnvVars |-> e[k]]

\* Nothing was handed to a cluster yet.
NoEnvironment == [given |-> FALSE, vars |-> [k \in EnvVars |-> "unset"]]

\* Only the Landsat notebook writes to the environment.
InitEnviron ==
    /\ \E v \in (IF nb = "landsat" THEN {"unset", "inherited"} ELSE {"unset"}) :
          environ = StartEnviron(v)
    /\ environment_vars = NoEnvironment

(***************************************************************************)
(* The cube's bands and the task graphs of the two derived products        *)
(***************************************************************************)
Notebooks == {"pc", "landsat"}

\* stac_load(measurements=[...]) / stac_load(bands=[...])
Measurements(n) ==
    IF n = "pc" THEN {"B02", "B03", "B04", "B08"} ELSE {"red", "blue", "green", "nir08"}
\* to_rgba(..., bands=RGB)
RGB(n) == IF n = "pc" THEN {"B04", "B03", "B02"} ELSE {"red", "green", "blue"}
\* the two bands of the NDVI expression: <<a, b>> of (a - b) / (a + b)
NdviBands(n) == IF n = "pc" THEN <<"B08", "B04">> ELSE <<"nir08", "red">>

Tasks(n) == Measurements(n) \cup {"vis", "ndvi", "mean"}

\* The tasks a task reads: a band-loading task reads its assets, the
\* composite its three bands, the index its two, the mean the index.
Deps(n, t) ==
    CASE t = "vis" -> RGB(n)
      [] t = "ndvi" -> {NdviBands(n)[1], NdviBands(n)[2]}
      [] t = "mean" -> {"ndvi"}
      [] OTHER -> {}

\* The tasks a task reads through another task.
TransDepsOf(n, t) == UNION {Deps(n, d) : d \in Deps(n, t)}

NoTasks(n) == [t \in Tasks(n) |-> "none"]
Zero(n) == [t \in Tasks(n) |-> 0]

\* Before stac_load and before any cluster exists.
NoCube == [built |-> FALSE, lazy |-> FALSE, signed |-> FALSE]
InitDask ==
    /\ dc = NoCube
    /\ vis = "undefined"
    /\ ndvi = "undefined"
    /\ client = "none"
    /\ task = NoTasks(nb)
    /\ held = {}
    /\ batch = Zero(nb)
    /\ calls = 0
    /\ nrun = Zero(nb)
    /\ accesses = 0
    /\ tokens = 0
    /\ read = {}
    /\ blame = NoTasks(nb)
    /\ err_task = "none"

(***************************************************************************)
(* The per-collection configuration and the NDVI expression on one pixel   *)
(***************************************************************************)
\* cfg: the collection key of the configuration document ...
CfgKey(n) == IF n = "pc" THEN "sentinel-2-l2a" ELSE "landat-c2l2-sr"
\* ... and the collection the items belong to.
CollectionId(n) == IF n = "pc" THEN "sentinel-2-l2a" ELSE "landsat-c2l2-sr"
\* data_type: uint16 / dtype: uint16
CfgDtype == "uint16"
Bits == 16
\* nodata: 0
CfgNodata == 0

\* The loader looks the configuration up by the items' collection id.
CfgApplies(n) == CfgKey(n) = CollectionId(n)

\* The no-data value the loader attaches to the bands: the configured one,
\* or none for a collection without configuration (the items carry none).
NoNodata == [known |-> FALSE, value |-> 0]
LoadedNodata(n) ==
    IF CfgApplies(n) THEN [known |-> TRUE, value |-> CfgNodata] ELSE NoNodata

\* The data types the loader falls back to for a collection without
\* configuration: uint16 or float32, depending on the odc-stac release.
DefaultDtypes == {"uint16", "float32"}
LoadedDtypes(n) == IF CfgApplies(n) THEN {CfgDtype} ELSE DefaultDtypes

Modulus == 2 ^ Bits
Top == Modulus - 1
Half == 2 ^ (Bits - 1)

\* Values of a lazy array element.
Lazy == [kind |-> "lazy", n |-> 0, d |-> 1]
Num(n, d) == [kind |-> "num", n |-> n, d |-> d]
NaNValue == [kind |-> "nan", n |-> 0, d |-> 1]
Inf(sign) == [kind |-> "inf", n |-> sign, d |-> 0]

\* a - b and a + b in the arrays' data type: unsigned 16-bit arithmetic
\* wraps around, floating point does not (the operands are < 2^16).
Subtract(t, x, y) == IF t = "uint16" THEN (x - y) % Modulus ELSE x - y
Add(t, x, y) == IF t = "uint16" THEN (x + y) % Modulus ELSE x + y

\* x / y: true division gives a float; n/0 is +-inf, 0/0 is NaN, no raise.
Divide(x, y) ==
    IF y = 0
    THEN (IF x = 0 THEN NaNValue ELSE Inf(IF x > 0 THEN 1 ELSE -1))
    ELSE Num(x, y)

\* .clip(lo, hi) on a float: NaN stays NaN.
clip(v, lo, hi) ==
    CASE v.kind = "nan" -> NaNValue
      [] v.kind = "inf" -> Num(IF v.n > 0 THEN hi ELSE lo, 1)
      [] OTHER ->
            IF v.n < lo * v.d THEN Num(lo, 1)
            ELSE IF v.n > hi * v.d THEN Num(hi, 1)
            ELSE v

\* ((a - b) / (a + b)).clip(0, 1)
NdviExpression(t, x, y) == clip(Divide(Subtract(t, x, y), Add(t, x, y)), 0, 1)

\* The pixel values tried: the lowest, the middle and the highest values
\* of the 16-bit range.
PixelValues ==
    (0..MaxLow) \cup ((Half - MaxLow)..(Half + MaxLow)) \cup ((Top - MaxLow)..Top)

\* The pixel before any expression is evaluated on it.
InitBands ==
    /\ nir = 0
    /\ red = 0
    /\ green = 0
    /\ blue = 0
    /\ ndvi_value = Lazy
    /\ alpha = Lazy

\* The expression evaluated at one pixel (what a task of the ndvi graph does
\* for each element of its chunk).
NdviPixel ==
    /\ cell = "pixel"
    /\ ndvi_value' = NdviExpression(dtype, nir, red)
    /\ cell' = "pixel_done"
    /\ UNCHANGED <<nb, evars, returned, items_dict, item_collection, fvars, dvars>>
    /\ UNCHANGED <<dtype, nodata, nir, red, green, blue, alpha>>

\* to_rgba's mask of valid pixels, taken from the first of the three bands
\* and the no-data value that band carries: a float band is valid where it
\* is not NaN (a value read from an asset never is) and differs from the
\* no-data value if it has one; an integer band where it differs from its
\* no-data value, and everywhere if it has none.
Valid(t, nd, r) ==
    IF t = "float32" THEN (nd.known => r # nd.value)
    ELSE IF nd.known THEN r # nd.value
    ELSE TRUE

\* The alpha channel of the composite: 255 where valid, else 0.
Alpha(t, nd, r, g, b) == IF Valid(t, nd, r) THEN 255 ELSE 0

\* to_rgba evaluated at one pixel (what a task of the vis graph does for
\* each element of its chunk).
ToRgbaPixel ==
    /\ cell = "rgba"
    /\ alpha' = Num(Alpha(dtype, nodata, red, green, blue), 1)
    /\ cell' = "rgba_done"
    /\ UNCHANGED <<nb, evars, returned, items_dict, item_collection, fvars, dvars>>
    /\ UNCHANGED <<dtype, nodata, nir, red, green, blue, ndvi_value>>

(***************************************************************************)
(* SpecNorm: items_to_geodataframe on every list of up to MaxItems items   *)
(***************************************************************************)
InitNorm ==
    /\ nb = "pc"
    /\ cell = "footprints"
    /\ \E n \in 0..MaxItems :
          /\ \E ps \in [1..n -> AllProperties] :
                heap = [k \in 1..n |-> Item(k, ps[k], [B04 |-> AssetPlain])]
          /\ items = [k \in 1..n |-> k]
    /\ returned = heap
    /\ items_dict = items
    /\ _items = <<>>
    /\ gdf = EmptyFrame
    /\ fpc = "loop"
    /\ field_i = 1
    /\ err = "none"
    /\ item_collection = <<>>
    /\ InitDask
    /\ dtype = CfgDtype
    /\ nodata = LoadedNodata(nb)
    /\ InitBands
    /\ InitEnviron

NextNorm == FootprintStep

SpecNorm == InitNorm /\ [][NextNorm]_vars

(***************************************************************************)
(* SpecPixel: the NDVI expression on every pair of pixel values            *)
(***************************************************************************)
InitPixel ==
    /\ nb \in Notebooks
    /\ cell = "pixel"
    /\ dtype \in LoadedDtypes(nb)
    /\ nodata = LoadedNodata(nb)
    /\ nir \in PixelValues
    /\ red \in PixelValues
    /\ green = 0
    /\ blue = 0
    /\ ndvi_value = Lazy
    /\ alpha = Lazy
    /\ InitEnviron
    /\ heap = <<>>
    /\ items = <<>>
    /\ returned = <<>>
    /\ items_dict = <<>>
    /\ _items = <<>>
    /\ gdf = EmptyFrame
    /\ fpc = "idle"
    /\ field_i = 1
    /\ err = "none"
    /\ item_collection = <<>>
    /\ InitDask

NextPixel == NdviPixel

SpecPixel == InitPixel /\ [][NextPixel]_vars

(***************************************************************************)
(* SpecRgba: the composite's alpha channel on every triple of band values  *)
(* from the no-data value up                                               *)
(***************************************************************************)
RgbValues == CfgNodata..(CfgNodata + MaxLow)

InitRgba ==
    /\ nb \in Notebooks
    /\ cell = "rgba"
    /\ dtype \in LoadedDtypes(nb)
    /\ nodata = LoadedNodata(nb)
    /\ red \in RgbValues
    /\ green \in RgbValues
    /\ blue \in RgbValues
    /\ nir = 0
    /\ ndvi_value = Lazy
    /\ alpha = Lazy
    /\ heap = <<>>
    /\ items = <<>>
    /\ returned = <<>>
    /\ items_dict = <<>>
    /\ _items = <<>>
    /\ gdf = EmptyFrame
    /\ fpc = "idle"
    /\ field_i = 1
    /\ err = "none"
    /\ item_collection = <<>>
    /\ InitDask
    /\ InitEnviron

NextRgba == ToRgbaPixel

SpecRgba == InitRgba /\ [][NextRgba]_vars

(***************************************************************************)
(* The worker pool: the scheduler's handling of the submitted graphs       *)
(***************************************************************************)
Pending == {"waiting", "processing"}
Terminal == {"memory", "erred"}
Unknown == {"none", "forgotten"}

\* The tasks a submission of `targets` adds: the targets the scheduler does
\* not know, and below them the tasks they read that it does not know.
NewTasks_All(n, tk, targets) ==
    targets \cup UNION {Deps(n, t) : t \in targets}
            \cup UNION {TransDepsOf(n, t) : t \in targets}
NewTasks(n, tk, targets) ==
    LET new(S) == {t \in S : tk[t] \in Unknown}
        l1 == new(targets)
        l2 == new(UNION {Deps(n, t) : t \in l1})
        l3 == new(UNION {Deps(n, t) : t \in l2})
    IN  l1 \cup l2 \cup l3

\* A task is wanted while the client holds its future or a pending task
\* reads it; the scheduler forgets every task nobody wants.
Wanted(n, tk, h, t) ==
    \/ t \in h
    \/ \E u \in Tasks(n) : t \in Deps(n, u) /\ tk[u] \in Pending
ReleasePass(n, tk, h) ==
    [t \in Tasks(n) |->
        IF tk[t] \notin Unknown /\ ~Wanted(n, tk, h, t) THEN "forgotten" ELSE tk[t]]
Release(n, tk, h) == ReleasePass(n, ReleasePass(n, ReleasePass(n, tk, h), h), h)

\* A task that reads an erred task is erred itself.
ErrPass(n, tk) ==
    [t \in Tasks(n) |->
        IF tk[t] \in Pending /\ \E d \in Deps(n, t) : tk[d] = "erred"
        THEN "erred" ELSE tk[t]]
Propagate(n, tk) == ErrPass(n, ErrPass(n, ErrPass(n, tk)))

\* An erred task carries the exception of the task that failed: its own,
\* or the one the erred task it reads carries.
BlamePass(n, tk, bl) ==
    [t \in Tasks(n) |->
        IF tk[t] \in Pending /\ \E d \in Deps(n, t) : tk[d] = "erred"
        THEN bl[CHOOSE d \in Deps(n, t) : tk[d] = "erred"] ELSE bl[t]]
PropagateBlame(n, tk, bl) ==
    LET b1 == BlamePass(n, tk, bl)
        t1 == ErrPass(n, tk)
        b2 == BlamePass(n, t1, b1)
        t2 == ErrPass(n, t1)
    IN  BlamePass(n, t2, b2)

\* client.persist / compute: the graph of `targets` goes to the scheduler.
Submit(targets, keep) ==
    LET new == NewTasks(nb, task, targets)
    IN  /\ client = "connected"
        /\ calls' = calls + 1
        /\ task' = Propagate(nb, [t \in Tasks(nb) |-> IF t \in new THEN "waiting" ELSE task[t]])
        /\ blame' = PropagateBlame(nb,
                        [t \in Tasks(nb) |-> IF t \in new THEN "waiting" ELSE task[t]],
                        [t \in Tasks(nb) |-> IF t \in new THEN "none" ELSE blame[t]])
        /\ batch' = [t \in Tasks(nb) |-> IF t \in new THEN calls + 1 ELSE batch[t]]
        /\ held' = held \cup keep

\* What the notebook sees of the scheduler when it reads a result.
Seen(result, own) ==
    [result |-> result, own |-> own, vis |-> task["vis"], ndvi |-> task["ndvi"]]

\* Whether stac_load was given chunks: the cube is then a lazy dask graph,
\* otherwise every band of every item is read before stac_load returns.
Chunked_None(n) == FALSE
Chunked(n) == TRUE
EagerReads(n, nitems) == IF Chunked(n) THEN 0 ELSE nitems * Cardinality(Measurements(n))

\* patch_url=pc.sign is given in the Planetary Computer notebook only.
PatchUrl(n) == n = "pc"

\* A worker starts a task whose inputs are all in memory. A band-loading
\* task opens the band's assets (signing their urls first when the hook
\* was not applied at construction).
TaskStart(t) ==
    /\ client = "connected"
    /\ task[t] = "waiting"
    /\ \A d \in Deps(nb, t) : task[d] = "memory"
    /\ task' = [task EXCEPT ![t] = "processing"]
    /\ nrun' = [nrun EXCEPT ![t] = @ + 1]
    /\ accesses' = IF t \in Measurements(nb) THEN accesses + 1 ELSE accesses
    /\ tokens' = IF t \in Measurements(nb) /\ PatchUrl(nb) /\ ~dc.signed
                 THEN tokens + 1 ELSE tokens
    /\ UNCHANGED <<nb, evars, cell, returned, items_dict, item_collection, fvars, pvars>>
    /\ UNCHANGED <<dc, vis, ndvi, client, held, batch, calls, read, blame, err_task>>

TaskFinish(t) ==
    /\ client = "connected"
    /\ task[t] = "processing"
    /\ task' = Release(nb, [task EXCEPT ![t] = "memory"], held)
    /\ UNCHANGED <<nb, evars, cell, returned, items_dict, item_collection, fvars, pvars>>
    /\ UNCHANGED <<dc, vis, ndvi, client, held, batch, calls, nrun, accesses, tokens, read, blame, err_task>>

TaskFail(t) ==
    /\ client = "connected"
    /\ task[t] = "processing"
    /\ task' = Release(nb, Propagate(nb, [task EXCEPT ![t] = "erred"]), held)
    /\ blame' = PropagateBlame(nb, [task EXCEPT ![t] = "erred"], [blame EXCEPT ![t] = t])
    /\ UNCHANGED <<nb, evars, cell, returned, items_dict, item_collection, fvars, pvars>>
    /\ UNCHANGED <<dc, vis, ndvi, client, held, batch, calls, nrun, accesses, tokens, read, err_task>>

(***************************************************************************)
(* The notebooks, cell by cell                                             *)
(***************************************************************************)
\* The asset keys the items of a search have: the collection's band names,
\* or all of them but one (a catalog whose items lack that band).
AssetKeys(n) == {Measurements(n)} \cup {Measurements(n) \ {b} : b \in Measurements(n)}

\* The items a search returns: up to MaxItems records, the assets of each
\* under the keys `keys`.
CatalogItem(keys, k, kind) ==
    Item(k, [datetime |-> Cell("str", 1), created |-> Cell("str", 1),
             updated |-> Cell("str", 1)],
         [b \in keys |-> kind])

\* env = dict(GDAL_...); os.environ.update(env)
EnvGdal ==
    /\ cell = "env_gdal"
    /\ environ' = EnvUpdate(environ, GdalEnv)
    /\ cell' = "env_payer"
    /\ UNCHANGED <<nb, environment_vars, returned, items_dict, item_collection,
                   fvars, dvars, pvars>>

\* env = dict(AWS_REQUEST_PAYER='requester'); os.environ.update(env)
EnvPayer ==
    /\ cell = "env_payer"
    /\ environ' = EnvUpdate(environ, PayerEnv)
    /\ cell' = "search"
    /\ UNCHANGED <<nb, environment_vars, returned, items_dict, item_collection,
                   fvars, dvars, pvars>>

\* set_credentials(): the three assignments in order; cp[profile][key]
\* raises KeyError for a profile or key the credentials file lacks, after
\* the assignments before it were made.
SetCredentials ==
    /\ cell = "credentials"
    /\ \E file \in CredentialFiles :
          LET e1 == IF "aws_access_key_id" \in file
                    THEN [environ EXCEPT !["AWS_ACCESS_KEY_ID"] = "key-of-profile"]
                    ELSE environ
              e2 == IF "aws_secret_access_key" \in file
                    THEN [e1 EXCEPT !["AWS_SECRET_ACCESS_KEY"] = "secret-of-profile"]
                    ELSE e1
              e3 == [e2 EXCEPT !["AWS_S3_ENDPOINT"] = Endpoint]
          IN  IF "aws_access_key_id" \notin file
              THEN /\ environ' = environ
                   /\ err' = "KeyError"
                   /\ cell' = "halted"
              ELSE IF "aws_secret_access_key" \notin file
              THEN /\ environ' = e1
                   /\ err' = "KeyError"
                   /\ cell' = "halted"
              ELSE /\ environ' = e3
                   /\ err' = err
                   /\ cell' = "cluster"
    /\ UNCHANGED <<nb, environment_vars, returned, items_dict, item_collection,
                   dvars, pvars>>
    /\ UNCHANGED <<heap, items, _items, gdf, fpc, field_i>>

\* items_dict = search.get_all_items_as_dict()['features']
Search ==
    /\ cell = "search"
    /\ \E n \in 0..MaxItems : \E kinds \in [1..n -> AssetKinds] :
       \E keys \in AssetKeys(nb) :
          /\ heap' = [k \in 1..n |-> CatalogItem(keys, k, kinds[k])]
          /\ items_dict' = [k \in 1..n |-> k]
    /\ returned' = heap'
    /\ cell' = IF nb = "landsat" THEN "rewrite" ELSE "footprints"
    /\ UNCHANGED <<nb, evars, item_collection, items, _items, gdf, fpc, field_i, err, dvars, pvars>>

\* str.replace(old, new) on an href: 'usgs-landsat-ard' is the fragment
\* "usgs-landsat" followed by "-ard".
RECURSIVE ReplaceArd(_)
ReplaceArd(h) ==
    IF h = <<>> THEN <<>>
    ELSE IF Len(h) >= 2 /\ h[1] = "usgs-landsat" /\ h[2] = "-ard"
         THEN <<"usgs-landsat">> \o ReplaceArd(Tail(Tail(h)))
         ELSE <<h[1]>> \o ReplaceArd(Tail(h))

\* The body of the rewrite loop for one asset.
RewriteAsset_ElseReplace(a) ==
    IF "alternate" \in DOMAIN a /\ "s3" \in DOMAIN a.alternate
    THEN [a EXCEPT !.href = a.alternate.s3.href]
    ELSE [a EXCEPT !.href = ReplaceArd(@)]
RewriteAsset_ReplaceAsset(a) ==
    IF "alternate" \in DOMAIN a /\ "s3" \in DOMAIN a.alternate
    THEN [href |-> ReplaceArd(a.alternate.s3.href)]
    ELSE [a EXCEPT !.href = ReplaceArd(@)]
RewriteAsset(a) ==
    LET a1 == IF "alternate" \in DOMAIN a /\ "s3" \in DOMAIN a.alternate
              THEN [a EXCEPT !.href = a.alternate.s3.href]
              ELSE a
    IN  [a1 EXCEPT !.href = ReplaceArd(@)]

RewriteItem(it) == [it EXCEPT !.assets = [a \in DOMAIN it.assets |-> RewriteAsset(it.assets[a])]]

\* for item in items_dict: for a in item['assets']: ... (in place)
RewriteUrls ==
    /\ cell = "rewrite"
    /\ heap' = [k \in 1..Len(heap) |->
                  IF \E j \in 1..Len(items_dict) : items_dict[j] = k
                  THEN RewriteItem(heap[k]) ELSE heap[k]]
    /\ cell' = "footprints"
    /\ UNCHANGED <<nb, evars, returned, items_dict, item_collection, items, _items, gdf,
                   fpc, field_i, err, dvars, pvars>>

\* items_gdf = items_to_geodataframe(items_dict): the call ...
FootprintCall ==
    /\ cell = "footprints"
    /\ fpc = "idle"
    /\ items' = items_dict
    /\ _items' = <<>>
    /\ fpc' = "loop"
    /\ UNCHANGED <<nb, evars, cell, returned, items_dict, item_collection, heap, gdf,
                   field_i, err, dvars, pvars>>

\* ... and its return; an exception ends the run of the notebook.
FootprintReturn ==
    /\ cell = "footprints"
    /\ fpc \in {"done", "raised"}
    /\ cell' = IF fpc = "done" THEN "stac_load" ELSE "halted"
    /\ UNCHANGED <<nb, evars, returned, items_dict, item_collection, fvars, dvars, pvars>>

\* The requested bands the loader cannot resolve: those that no item of
\* the collection has an asset for.
UnknownBands_Ignored(n, coll) == {}
UnknownBands(n, coll) ==
    {b \in Measurements(n) : \A k \in 1..Len(coll) : b \notin DOMAIN coll[k].assets}

\* item_collection = pystac.ItemCollection(items_dict); dc = stac_load(...):
\* the loader resolves the band names first and raises for one it cannot
\* resolve; otherwise it builds the cube.
StacLoad ==
    /\ cell = "stac_load"
    /\ item_collection' = [k \in 1..Len(items_dict) |-> heap[items_dict[k]]]
    /\ IF UnknownBands(nb, item_collection') # {}
       THEN /\ err' = "ValueError"
            /\ cell' = "halted"
            /\ UNCHANGED <<dc, tokens, accesses, dtype, nodata>>
       ELSE /\ \E eager \in BOOLEAN :
                  /\ dc' = [built |-> TRUE, lazy |-> Chunked(nb),
                            signed |-> PatchUrl(nb) /\ eager]
                  /\ tokens' = IF PatchUrl(nb) /\ eager THEN tokens + 1 ELSE tokens
            /\ accesses' = accesses + EagerReads(nb, Len(items_dict))
            /\ dtype' \in LoadedDtypes(nb)
            /\ nodata' = LoadedNodata(nb)
            /\ cell' = "to_rgba"
            /\ err' = err
    /\ UNCHANGED <<nb, evars, returned, items_dict, nir, red, green, blue, ndvi_value, alpha>>
    /\ UNCHANGED <<heap, items, _items, gdf, fpc, field_i>>
    /\ UNCHANGED <<vis, ndvi, client, task, held, batch, calls, nrun, read, blame, err_task>>

\* vis = to_rgba(dc, clamp=(1, 3000), bands=RGB) / dc.odc.to_rgba(...)
ToRgba ==
    /\ cell = "to_rgba"
    /\ vis' = "lazy"
    /\ cell' = "ndvi"
    /\ UNCHANGED <<nb, evars, returned, items_dict, item_collection, fvars, pvars>>
    /\ UNCHANGED <<dc, ndvi, client, task, held, batch, calls, nrun, accesses, tokens, read, blame, err_task>>

\* ndvi = ((a - b) / (a + b)).clip(0, 1)
NdviCell ==
    /\ cell = "ndvi"
    /\ ndvi' = "lazy"
    /\ cell' = IF nb = "landsat" THEN "credentials" ELSE "cluster"
    /\ UNCHANGED <<nb, evars, returned, items_dict, item_collection, fvars, pvars>>
    /\ UNCHANGED <<dc, vis, client, task, held, batch, calls, nrun, accesses, tokens, read, blame, err_task>>

\* options.environment_vars = dict(os.environ);
\* cluster = gateway.new_cluster(options); client = cluster.get_client()
StartCluster ==
    /\ cell = "cluster"
    /\ environment_vars' = [given |-> TRUE, vars |-> EnvironmentVars(environ)]
    /\ client' = "connected"
    /\ cell' = "persist"
    /\ UNCHANGED <<nb, environ, returned, items_dict, item_collection, fvars, pvars>>
    /\ UNCHANGED <<dc, vis, ndvi, task, held, batch, calls, nrun, accesses, tokens, read, blame, err_task>>


\* The results each notebook hands to client.persist.
PersistTargets_VisOnly(n) == {"vis"}
PersistTargets(n) == IF n = "pc" THEN {"ndvi", "vis"} ELSE {"vis"}

\* ndvi, vis = client.persist([ndvi, vis]) / vis = client.persist(vis):
\* the graphs are submitted and the call returns.
Persist ==
    /\ cell = "persist"
    /\ Submit(PersistTargets(nb), PersistTargets(nb))
    /\ vis' = "persisted"
    /\ ndvi' = IF "ndvi" \in PersistTargets(nb) THEN "persisted" ELSE ndvi
    /\ cell' = IF nb = "pc" THEN "wait" ELSE "imshow"
    /\ UNCHANGED <<nb, evars, returned, items_dict, item_collection, fvars, pvars>>
    /\ UNCHANGED <<dc, client, nrun, accesses, tokens, read, err_task>>

\* wait(fs) returns once every future of fs is finished or erred.
WaitReady_NoBlock(fs) == TRUE
WaitReady(fs) == \A t \in fs : task[t] \in Terminal

\* _ = wait([ndvi, vis])
Wait ==
    /\ cell = "wait"
    /\ WaitReady({"ndvi", "vis"})
    /\ cell' = "vis_compute"
    /\ UNCHANGED <<nb, evars, returned, items_dict, item_collection, fvars, dvars, pvars>>

\* Reading a persisted result (compute, or a plot that takes its values)
\* blocks until its future is finished or erred.
Ready(t) == task[t] \in Terminal

\* The result of reading task t's future: its value, or its exception
\* (the one exception the future carries, re-raised in the notebook).
Gather_Default(t, next) ==
    /\ Ready(t)
    /\ err' = err
    /\ err_task' = err_task
    /\ cell' = next
    /\ read' = read \cup {Seen(t, task[t])}
Gather(t, next) ==
    /\ Ready(t)
    /\ IF task[t] = "erred"
       THEN /\ err' = "TaskFailed"
            /\ err_task' = blame[t]
            /\ cell' = "halted"
            /\ read' = read
       ELSE /\ err' = err
            /\ err_task' = err_task
            /\ cell' = next
            /\ read' = read \cup {Seen(t, task[t])}

\* vis_ = vis.compute() / vis.plot.imshow(...) / vis.hvplot.rgb(...)
ReadVis ==
    /\ cell \in {"vis_compute", "imshow", "hvplot_rgb"}
    /\ Gather("vis", IF cell = "imshow" THEN "hvplot_rgb" ELSE "ndvi_compute")
    /\ UNCHANGED <<nb, evars, returned, items_dict, item_collection, pvars>>
    /\ UNCHANGED <<heap, items, _items, gdf, fpc, field_i>>
    /\ UNCHANGED <<dc, vis, ndvi, client, task, held, batch, calls, nrun, accesses, tokens, blame>>

\* ndvi_ = ndvi.compute() on the persisted ndvi (Planetary Computer);
\* ndvi = ndvi.compute() on the lazy ndvi (Landsat) submits its graph first.
NdviCompute ==
    /\ cell = "ndvi_compute"
    /\ IF ndvi = "persisted"
       THEN /\ Gather("ndvi", "ndvi_mean")
            /\ UNCHANGED <<task, held, batch, calls, blame>>
       ELSE /\ Submit({"ndvi"}, {"ndvi"})
            /\ cell' = "ndvi_gather"
            /\ UNCHANGED <<err, read, err_task>>
    /\ UNCHANGED <<nb, evars, returned, items_dict, item_collection, pvars>>
    /\ UNCHANGED <<heap, items, _items, gdf, fpc, field_i>>
    /\ UNCHANGED <<dc, vis, ndvi, client, nrun, accesses, tokens>>

\* ... and takes the result: ndvi is a numpy array from here on and the
\* future is dropped.
NdviGather ==
    /\ cell = "ndvi_gather"
    /\ Gather("ndvi", "ndvi_mean")
    /\ ndvi' = IF task["ndvi"] = "erred" THEN ndvi ELSE "numpy"
    /\ held' = held \ {"ndvi"}
    /\ task' = Release(nb, task, held')
    /\ UNCHANGED <<nb, evars, returned, items_dict, item_collection, pvars>>
    /\ UNCHANGED <<heap, items, _items, gdf, fpc, field_i>>
    /\ UNCHANGED <<dc, vis, client, batch, calls, nrun, accesses, tokens, blame>>

\* ndvi_mean = ndvi.mean(dim=['x', 'y']).compute(): on the numpy ndvi it
\* is computed in the notebook, on the persisted ndvi it is one more graph.
NdviMean ==
    /\ cell = "ndvi_mean"
    /\ IF ndvi = "numpy"
       THEN /\ read' = read \cup {Seen("mean", "numpy")}
            /\ cell' = "shutdown"
            /\ UNCHANGED <<task, held, batch, calls, blame>>
       ELSE /\ Submit({"mean"}, {"mean"})
            /\ cell' = "mean_gather"
            /\ read' = read
    /\ UNCHANGED <<nb, evars, returned, items_dict, item_collection, fvars, pvars>>
    /\ UNCHANGED <<dc, vis, ndvi, client, nrun, accesses, tokens, err_task>>

MeanGather ==
    /\ cell = "mean_gather"
    /\ Gather("mean", "shutdown")
    /\ held' = held \ {"mean"}
    /\ task' = Release(nb, task, held')
    /\ UNCHANGED <<nb, evars, returned, items_dict, item_collection, pvars>>
    /\ UNCHANGED <<heap, items, _items, gdf, fpc, field_i>>
    /\ UNCHANGED <<dc, vis, ndvi, client, batch, calls, nrun, accesses, tokens, blame>>

\* gateway.stop_cluster(cluster_name=cluster.name)
Shutdown ==
    /\ cell = "shutdown"
    /\ client' = "closed"
    /\ held' = {}
    /\ task' = Release(nb, [t \in Tasks(nb) |-> IF task[t] \in Pending THEN "forgotten" ELSE task[t]], {})
    /\ cell' = "end"
    /\ UNCHANGED <<nb, evars, returned, items_dict, item_collection, fvars, pvars>>
    /\ UNCHANGED <<dc, vis, ndvi, batch, calls, nrun, accesses, tokens, read, blame, err_task>>

(***************************************************************************)
(* Spec: a run of either notebook from the search on, top to bottom,       *)
(* with the workers of the pool running beside it                          *)
(***************************************************************************)
Init ==
    /\ nb \in Notebooks
    /\ cell = IF nb = "landsat" THEN "env_gdal" ELSE "search"
    /\ heap = <<>>
    /\ returned = <<>>
    /\ items_dict = <<>>
    /\ items = <<>>
    /\ _items = <<>>
    /\ gdf = EmptyFrame
    /\ fpc = "idle"
    /\ field_i = 1
    /\ err = "none"
    /\ item_collection = <<>>
    /\ InitDask
    /\ dtype = "none"
    /\ nodata = NoNodata
    /\ InitBands
    /\ InitEnviron

Next ==
    \/ EnvGdal
    \/ EnvPayer
    \/ Search
    \/ RewriteUrls
    \/ FootprintCall
    \/ FootprintStep
    \/ FootprintReturn
    \/ StacLoad
    \/ ToRgba
    \/ NdviCell
    \/ SetCredentials
    \/ StartCluster
    \/ Persist
    \/ Wait
    \/ ReadVis
    \/ NdviCompute
    \/ NdviGather
    \/ NdviMean
    \/ MeanGather
    \/ Shutdown
    \/ \E t \in Tasks(nb) : TaskStart(t)
    \/ \E t \in Tasks(nb) : TaskFinish(t)
    \/ \E t \in Tasks(nb) : TaskFail(t)

Spec == Init /\ [][Next]_vars

(***************************************************************************)
(* Claims about items_to_geodataframe (SpecNorm)                           *)
(***************************************************************************)
Returned == fpc = "done"
Ended == fpc \in {"done", "raised"}

\* The timestamp column `field` is absent from every item of the input.
AbsentFromAll(field) ==
    \A k \in 1..Len(items) : field[2] \notin DOMAIN heap[items[k]].properties

\* C1: for a non-empty input list, the table the function returns has
\* exactly one row per input item, in the table's rows and in its index:
\* row k is item k, none dropped, merged or duplicated, also when
\* timestamps coincide.
C1_OneRowPerItem ==
    (Returned /\ Len(items) > 0) =>
        /\ Len(gdf.rows) = Len(items)
        /\ Len(gdf.index) = Len(items)
        /\ \A k \in 1..Len(items) :
              gdf.rows[k][<<"id">>] = Cell("id", heap[items[k]].id)

\* C1 witness: a table returned for two items of the same timestamp.
C1_Witness ==
    /\ Returned
    /\ Len(items) >= 2
    /\ gdf.index[1] = gdf.index[2]
    /\ gdf.index[1].t = "Timestamp"

\* C2: an empty item list gives a table of zero rows and no error.
C2_EmptyListYieldsEmptyTable ==
    (Ended /\ Len(items) = 0) =>
        (Returned /\ err = "none" /\ Len(gdf.rows) = 0)

\* C3: whichever of the three timestamp columns are absent from every item
\* of a (non-empty) input, the function skips them and returns a table.
C3_AbsentColumnsSkipped ==
    (Ended /\ Len(items) > 0
       /\ \E k \in 1..Len(TimestampFields) : AbsentFromAll(TimestampFields[k])) =>
        (Returned /\ err = "none")

\* C4: no step of items_to_geodataframe changes an input item record, nor
\* the input list.
C4_InputNotMutated ==
    [][ /\ items' = items
        /\ \A k \in 1..Len(items) : heap'[items[k]] = heap[items[k]] ]_vars

\* C4 witness: the function returned, the copy's geometry was replaced by a
\* shape object and the input's geometry is still the mapping.
C4_Witness ==
    /\ Returned
    /\ Len(items) >= 1
    /\ heap[_items[1]].geometry.kind = "shape"
    /\ heap[items[1]].geometry.kind = "mapping"

(***************************************************************************)
(* Claims about the NDVI expression (SpecPixel)                            *)
(***************************************************************************)
Evaluated == cell = "pixel_done"
IsNaN(v) == v.kind = "nan"
InUnitInterval(v) == v.kind = "num" /\ v.d > 0 /\ 0 <= v.n /\ v.n <= v.d
\* Neither input is the configured no-data value.
DefinedInputs == nir # CfgNodata /\ red # CfgNodata

\* C6: at every pixel with defined inputs the NDVI value lies in [0, 1].
C6_NdviInUnitInterval ==
    (Evaluated /\ DefinedInputs) => InUnitInterval(ndvi_value)

\* C7: for uint16 bands the NDVI value is NaN exactly where both bands
\* are zero.
C7_NaNIffBothZero ==
    (Evaluated /\ dtype = "uint16") =>
        (IsNaN(ndvi_value) <=> (nir = 0 /\ red = 0))

\* The exact value of (a - b) / (a + b), clipped to [0, 1].
ExactClipped(a, b) == clip(Divide(a - b, a + b), 0, 1)

\* Two values are the same number.
SameNumber(v, w) == v.kind = "num" /\ w.kind = "num" /\ v.n * w.d = w.n * v.d

\* C14: for uint16 bands and a + b not zero, the NDVI value is the exact
\* value of (a - b) / (a + b) clipped to [0, 1], hence 0 whenever a <= b.
C14_NdviIsExactClippedRatio ==
    (Evaluated /\ dtype = "uint16" /\ nir + red # 0) =>
        /\ SameNumber(ndvi_value, ExactClipped(nir, red))
        /\ nir <= red => SameNumber(ndvi_value, Num(0, 1))

(***************************************************************************)
(* Claims about the run of a notebook (Spec)                               *)
(***************************************************************************)
\* Two item records that differ at most in the hrefs of their assets.
SameButHref(x, y) ==
    /\ x.id = y.id
    /\ x.geometry = y.geometry
    /\ x.properties = y.properties
    /\ DOMAIN x.assets = DOMAIN y.assets
    /\ \A a \in DOMAIN x.assets :
          /\ DOMAIN x.assets[a] = DOMAIN y.assets[a]
          /\ \A f \in DOMAIN x.assets[a] \ {"href"} : x.assets[a][f] = y.assets[a][f]

\* The records of items_dict, by value.
Records == [k \in 1..Len(items_dict) |-> heap[items_dict[k]]]

\* C5 as stated: from the search's return on, every item record, and every
\* item handed to the loader, is identical to the record the catalog
\* returned.
C5_ItemsIdenticalToCatalog ==
    /\ Records = returned
    /\ dc.built => item_collection = returned

\* C5 amended: the only step that modifies the item records is the Landsat
\* URL rewrite loop, which changes nothing but asset hrefs; the loader is
\* handed the records as they then are: the catalog's records but for the
\* asset hrefs, and in the Planetary Computer notebook the catalog's records.
C5_OnlyRewriteLoopChangesHrefs ==
    [][ /\ cell # "search" => items_dict' = items_dict /\ returned' = returned
        /\ \A k \in 1..Len(items_dict) :
              /\ SameButHref(heap'[items_dict[k]], heap[items_dict[k]])
              /\ cell # "rewrite" => heap'[items_dict[k]] = heap[items_dict[k]]
        /\ cell = "stac_load" =>
              /\ Len(item_collection') = Len(returned)
              /\ \A k \in 1..Len(returned) :
                    /\ SameButHref(item_collection'[k], returned[k])
                    /\ nb = "pc" => item_collection'[k] = returned[k] ]_vars

\* C5 witness: the Landsat cube was built from records whose hrefs the
\* rewrite loop had changed.
C5_Witness ==
    /\ nb = "landsat"
    /\ dc.built
    /\ Len(item_collection) >= 1
    /\ item_collection # returned
    /\ item_collection = Records

\* C8: until the first persist or compute is called, the counter of
\* asset-url accesses is zero: stac_load (also with the signing hook),
\* to_rgba and the NDVI expression access no asset.
C8_NoAccessBeforeMaterialization == calls = 0 => accesses = 0

\* C8 witness: the cube of the notebook with the signing hook and both
\* derived products are built, the hook has run, nothing is submitted yet.
C8_Witness ==
    /\ nb = "pc"
    /\ cell = "persist"
    /\ dc.built /\ dc.signed /\ tokens > 0
    /\ vis = "lazy" /\ ndvi = "lazy"
    /\ calls = 0 /\ accesses = 0

\* The Execution Trigger step has returned: persist followed by wait in
\* the Planetary Computer notebook, persist in the Landsat notebook.
TriggerReturned == calls >= 1 /\ cell # "wait"

\* C9 as stated: once the Execution Trigger step has returned, no graph it
\* submitted is pending or running, in either notebook.
C9_TriggerBlocksUntilTerminal ==
    TriggerReturned => \A t \in PersistTargets(nb) : task[t] \notin Pending

\* C9 amended: that holds in the Planetary Computer notebook (persist, then
\* wait); in the Landsat notebook persist returns with its graph pending,
\* and in both notebooks a result is read only when its own graph is
\* complete.
C9_WaitBlocksAndReadsBlock ==
    /\ (nb = "pc" /\ TriggerReturned) =>
          \A t \in PersistTargets(nb) : task[t] \notin Pending
    /\ \A e \in read : e.own \in {"memory", "numpy"}

\* C9 witness: wait has returned with one graph complete and one failed.
C9_Witness ==
    /\ nb = "pc"
    /\ cell = "vis_compute"
    /\ task["vis"] = "memory"
    /\ task["ndvi"] = "erred"

\* C10 as stated: the composite and the NDVI band are submitted by one
\* call, and both are complete whenever one of them is read.
C10_AllCompleteBeforeAnyRead ==
    read # {} =>
        /\ batch["vis"] = batch["ndvi"]
        /\ \A e \in read : e.vis = "memory" /\ e.ndvi = "memory"

\* C10 amended: in the Planetary Computer notebook both are submitted by
\* the one persist call and both are finished or failed before either is
\* read; in the Landsat notebook persist submits the composite only and
\* the NDVI band is submitted by its own compute call; in both, a result
\* that is read is complete.
C10_SubmittedTogetherInPcOnly ==
    /\ calls >= 1 =>
          /\ batch["vis"] = 1
          /\ nb = "pc" => batch["ndvi"] = 1
          /\ nb = "landsat" => batch["ndvi"] # 1
    /\ \A e \in read :
          /\ e.own \in {"memory", "numpy"}
          /\ nb = "pc" => e.vis \in Terminal /\ e.ndvi \in Terminal
          /\ (nb = "landsat" /\ e.result = "ndvi") => batch["ndvi"] > batch["vis"]

\* C10 witness: both results were read in the Planetary Computer notebook.
C10_Witness ==
    /\ nb = "pc"
    /\ \E e \in read : e.result = "vis"
    /\ \E e \in read : e.result = "ndvi" /\ e.vis = "memory"

\* The tasks a task reads, directly or through another task.
TransDeps(n, t) == Deps(n, t) \cup TransDepsOf(n, t)

\* C11 as stated: the Execution Trigger step never returns normally with a
\* failed graph: once it has returned while a graph it submitted has
\* failed, the failure was raised in the notebook.
C11_TriggerSurfacesFailure ==
    (TriggerReturned /\ \E t \in PersistTargets(nb) : task[t] = "erred") =>
        err = "TaskFailed"

\* C11 amended: the trigger step returns normally also when a graph has
\* failed; the failure is raised, as one error naming the task that
\* failed, by the step that reads the failed result, the run stops there,
\* and no failed result is ever handed on as a value.
C11_FailureRaisedAtRead ==
    /\ [](\A e \in read : e.own \in {"memory", "numpy"})
    /\ [](\A t \in Tasks(nb) :
            task[t] = "erred" => blame[t] \in {t} \cup TransDeps(nb, t))
    /\ [](err = "TaskFailed" => cell = "halted")
    /\ [][ (err' = "TaskFailed" /\ err # "TaskFailed") =>
              /\ \E t \in held : task[t] = "erred" /\ err_task' = blame[t]
              /\ read' = read ]_vars

\* C11 witness: wait returned normally with the NDVI graph failed, the
\* composite was read, and reading the NDVI band raised the error of the
\* band-loading task that failed.
C11_Witness ==
    /\ nb = "pc"
    /\ err = "TaskFailed"
    /\ \E e \in read : e.result = "vis"
    /\ err_task \in Measurements(nb)
    /\ blame["ndvi"] = err_task

\* The loader was called on a collection none of whose items has an asset
\* for the requested band b.
AbsentFromEveryItem(b) ==
    /\ Len(item_collection) > 0
    /\ \A k \in 1..Len(item_collection) : b \notin DOMAIN item_collection[k].assets

WithoutArd(h) ==
    LET keep == {i \in 1..Len(h) : ~(i > 1 /\ h[i] = "-ard" /\ h[i - 1] = "usgs-landsat")}
        F[i \in 0..Len(h)] ==
            IF i = 0 THEN <<>>
            ELSE IF i \in keep THEN Append(F[i - 1], h[i]) ELSE F[i - 1]
    IN  F[Len(h)]

\* The href the loop picks for an asset descriptor: the alternate s3 href
\* if there is one, else the asset's own.
PickedHref(a) ==
    IF "alternate" \in DOMAIN a /\ "s3" \in DOMAIN a.alternate
    THEN a.alternate.s3.href ELSE a.href

\* The Landsat rewrite loop has run.
Rewritten == nb = "landsat" /\ cell \notin {"env_gdal", "env_payer", "search", "rewrite"}

\* C16: after the Landsat rewrite loop every asset of every item has the
\* href the loop picks (alternate s3, else its own) with every
\* 'usgs-landsat-ard' in it replaced by 'usgs-landsat', and nothing but
\* href differs from the record the catalog returned.
C16_RewrittenHrefs ==
    Rewritten =>
        \A k \in 1..Len(items_dict) :
            LET new == heap[items_dict[k]]
                old == returned[k]
            IN  /\ SameButHref(new, old)
                /\ \A a \in DOMAIN old.assets :
                      new.assets[a].href = WithoutArd(PickedHref(old.assets[a]))

\* C16 witness: the loop has rewritten two items, one from its alternate
\* s3 href and one, without an s3 alternate, from its own href that had
\* the bucket name twice.
C16_Witness ==
    /\ Rewritten
    /\ Len(items_dict) >= 2
    /\ \E k \in 1..Len(items_dict) : \E a \in DOMAIN returned[k].assets :
          /\ returned[k].assets[a] = AssetS3
          /\ heap[items_dict[k]].assets[a].href = <<"s3://", "usgs-landsat", "/B4.TIF">>
    /\ \E k \in 1..Len(items_dict) : \E a \in DOMAIN returned[k].assets :
          /\ returned[k].assets[a] = AssetGs
          /\ heap[items_dict[k]].assets[a].href # returned[k].assets[a].href

\* C15 as stated: over the whole run of a notebook no band-loading task is
\* executed more than once.
C15_NoBandLoadedTwice == \A b \in Measurements(nb) : nrun[b] <= 1

\* C15 amended: no task is executed more than once in the Planetary
\* Computer notebook, where one persist retains both results and every
\* later access reads them; in the Landsat notebook the retained composite
\* is read without recomputation, but the NDVI band was not retained and
\* its compute loads the red band, which the composite had loaded, a
\* second time; every other task runs at most once there too.
C15_OnlyLandsatRedLoadedTwice ==
    /\ \A t \in Tasks(nb) :
          nrun[t] <= (IF nb = "landsat" /\ t = NdviBands(nb)[2] THEN 2 ELSE 1)
    /\ nrun["vis"] <= 1
    /\ (nb = "landsat" /\ \E e \in read : e.result = "ndvi") =>
          nrun[NdviBands(nb)[2]] = 2

\* C15 witness: the Planetary Computer notebook has read the composite,
\* the NDVI band and its mean, and each band was loaded once.
C15_Witness ==
    /\ nb = "pc"
    /\ cell = "end"
    /\ {e.result : e \in read} = {"vis", "ndvi", "mean"}
    /\ \A b \in Measurements(nb) : nrun[b] = 1
    /\ nrun["ndvi"] = 1 /\ nrun["vis"] = 1 /\ nrun["mean"] = 1

\* C17: in the Landsat notebook the environment handed to the workers is
\* the process environment as it is after every write of the notebook:
\* AWS_REQUEST_PAYER, the four GDAL/VSI variables and the three variables
\* set_credentials sets have the values the notebook gave them; and no
\* graph is submitted before the cluster is made from it and its client
\* obtained.
C17_WorkersGetFinalEnvironment ==
    nb = "landsat" =>
        /\ environment_vars.given =>
              /\ environment_vars.vars["AWS_REQUEST_PAYER"] = "requester"
              /\ \A k \in GdalVars : environment_vars.vars[k] = GdalEnv[k]
              /\ environment_vars.vars["AWS_ACCESS_KEY_ID"] = "key-of-profile"
              /\ environment_vars.vars["AWS_SECRET_ACCESS_KEY"] = "secret-of-profile"
              /\ environment_vars.vars["AWS_S3_ENDPOINT"] = Endpoint
              /\ \A k \in EnvVars : environment_vars.vars[k] = environ[k]
        /\ client # "none" => environment_vars.given
        /\ calls >= 1 => (client # "none" /\ environment_vars.given)
        /\ \A t \in Tasks(nb) : task[t] # "none" => environment_vars.given

\* C17 witness: the Landsat composite was submitted to a cluster whose
\* workers got the snapshot, which also has the rest of the process
\* environment in it.
C17_Witness ==
    /\ nb = "landsat"
    /\ calls >= 1
    /\ task["vis"] \in Pending
    /\ environment_vars.given
    /\ environment_vars.vars["PATH"] = "inherited"
    /\ environment_vars.vars["AWS_S3_ENDPOINT"] = Endpoint

(***************************************************************************)
(* Claims about the composite's alpha channel (SpecRgba)                   *)
(***************************************************************************)
\* C12: in both notebooks the alpha channel of a pixel is zero exactly when
\* the pixel equals the configured no-data value in any of the three bands
\* of the composite.
C12_AlphaZeroIffNodata ==
    cell = "rgba_done" =>
        (alpha.n = 0 <=> (red = CfgNodata \/ green = CfgNodata \/ blue = CfgNodata))

====
